---- MODULE Spec2Model ----
(***************************************************************************)
(* The location-tracker component (React) as a state machine.              *)
(*                                                                         *)
(* Four variants of the component are modelled, selected by `variant`:     *)
(*   "continuous"  src/src/components/ContinuousLocationTracker.js         *)
(*   "background"  src/unnamed/part_001 (localStorage, wake lock, sync)    *)
(*   "current"     src/unnamed/part_000, first component (current position)*)
(*   "rounding"    src/unnamed/part_000, second component (rounded path)   *)
(*                                                                         *)
(* One action is one JavaScript job: an event handler, a sensor callback   *)
(* or a promise continuation, together with the render and the effect      *)
(* cleanups React runs before the next job.                                *)
(***************************************************************************)
EXTENDS Integers, Sequences, FiniteSets, TLC

VARIABLES
    variant,                \* which source file the component is
    env,                    \* capabilities of the platform (navigator.*)
    mounted,                \* the component instance is mounted
    path,                   \* useState([])
    isTracking,             \* useState(false)
    error,                  \* useState(null): <<>> is null
    watchId,                \* useState(null): <<>> is null, <<id>> otherwise
    debugInfo,              \* useState(""): the number of messages in the debug text
    isBackgroundSupported,  \* useState(false)
    serviceWorkerReg,       \* useState(null): FALSE is null
    storage,                \* localStorage item 'locationPath'
    watches,                \* ids of the watches navigator.geolocation holds
    nextId,                 \* the id the next watchPosition call returns
    pendingSeed,            \* getCurrentPosition requests not yet answered
    startsAwaiting,         \* startTracking calls suspended at their await
    checkPending,           \* checkBackgroundSupport suspended at its await
    swPending,              \* serviceWorker.register promise not settled
    wakePending,            \* wakeLock.request promises not settled
    wakeHeld,               \* wake lock sentinels granted and not released
    syncPending,            \* sync.register promises not settled
    pendingCleanup,         \* watchId of the effect whose cleanup is due
    lastThrow,              \* exception the last job raised ("none" if none)
    now,                    \* events so far (clicks, disposals, page loads,
                            \* sensor callbacks); stands for Date.now()
    stopped,                \* history: how the last stopTracking ended
    storage0,               \* history: the item when the page was first opened
    saved,                  \* history: locations whose save succeeded
    saveFailed,             \* history: some save or load failed
    currentPosition,        \* "current" variant: useState(null), <<>> is null
    captured                \* "rounding" variant: captured[id] is the watchId of
                            \* the render whose startTracking made watch id (the
                            \* watchId its callbacks' stopTracking reads)

vars == <<variant, env, mounted, path, isTracking, error, watchId, debugInfo,
          isBackgroundSupported, serviceWorkerReg, storage, watches, nextId,
          pendingSeed, startsAwaiting, checkPending, swPending, wakePending,
          wakeHeld, syncPending, pendingCleanup, lastThrow, now,
          stopped, storage0, saved, saveFailed, currentPosition, captured>>

(***************************************************************************)
(* Bounds of the model.                                                    *)
(***************************************************************************)
MaxEvents == 3      \* button clicks, disposals, page reloads and sensor
                    \* callbacks in one behaviour

null == <<>>

Variants == {"continuous", "background"}

(***************************************************************************)
(* Coordinates.  A coordinate is a decimal number of degrees with five     *)
(* fractional digits, held as the integer degrees * 10^5.  JavaScript      *)
(* holds it as the nearest IEEE-754 double.  F64 gives that double exactly *)
(* as hi * U0 + lo units of 2^-48 degree, where U0 = 2814749767 =           *)
(* floor(2^48 / 10^5); lo is the part of the double that is not a          *)
(* multiple of U0 (tabulated for the coordinates of the model).            *)
(***************************************************************************)
F64lo(c) ==
    CASE c = 2230720 -> 237706
      [] c = 2230721 -> 237706
      [] c = 2230722 -> 237706
      [] c = 2231000 -> 237735
      [] c = 7318120 -> 779820
      [] c = 7318121 -> 779817
      [] c = 7318122 -> 779818
      [] c = 7318123 -> 779819

F64(c) == [hi |-> c, lo |-> F64lo(c)]

\* a - b on doubles of nearby magnitude is exact
F64sub(a, b) == [hi |-> a.hi - b.hi, lo |-> a.lo - b.lo]

\* Math.abs
MathAbs(d) ==
    IF d.hi < 0 \/ (d.hi = 0 /\ d.lo < 0) THEN [hi |-> -d.hi, lo |-> -d.lo] ELSE d

\* d > 0.00001 for d >= 0.  The double 0.00001 is U0 + 0.10656... units of
\* 2^-48, strictly between the integers U0 and U0 + 1.
ExceedsThreshold(d) == d.hi > 1 \/ (d.hi = 1 /\ d.lo >= 1)

\* isSignificantMove with the threshold 0 in place of 0.00001
isSignificantMoveAnyDifference(newLocation, lastLocation) ==
    IF lastLocation = <<>> THEN TRUE
    ELSE LET latDiff == MathAbs(F64sub(F64(newLocation.lat), F64(lastLocation[1].lat)))
             lngDiff == MathAbs(F64sub(F64(newLocation.lng), F64(lastLocation[1].lng)))
         IN  latDiff.hi > 0 \/ lngDiff.hi > 0

(***************************************************************************)
(* isSignificantMove(newLocation, lastLocation); lastLocation is a         *)
(* sequence: <<>> when the path was empty (undefined), <<loc>> otherwise.  *)
(***************************************************************************)
isSignificantMove(newLocation, lastLocation) ==
    IF lastLocation = <<>> THEN TRUE
    ELSE LET latDiff == MathAbs(F64sub(F64(newLocation.lat), F64(lastLocation[1].lat)))
             lngDiff == MathAbs(F64sub(F64(newLocation.lng), F64(lastLocation[1].lng)))
         IN  ExceedsThreshold(latDiff) \/ ExceedsThreshold(lngDiff)

\* currentPath[currentPath.length - 1]
LastOf(currentPath) ==
    IF Len(currentPath) = 0 THEN <<>> ELSE <<currentPath[Len(currentPath)]>>

(***************************************************************************)
(* What the sensor reports: position.coords of a fix.  The three fixes are *)
(* (22.30720, 73.18120), (22.30721, 73.18121) and (22.31000, 73.18120).    *)
(***************************************************************************)
Fixes ==
    { [latitude |-> 2230720, longitude |-> 7318120, accuracy |-> 10],
      [latitude |-> 2230721, longitude |-> 7318121, accuracy |-> 10],
      [latitude |-> 2231000, longitude |-> 7318120, accuracy |-> 10] }

\* the fixes of a grid of coordinates: the nine pairs of three latitudes and
\* three longitudes
GridFixes ==
    { [latitude |-> a, longitude |-> b, accuracy |-> 10] :
        a \in {2230720, 2230721, 2231000},
        b \in {7318120, 7318121, 7318122} }

\* GeolocationPositionError of a watch: codes 1, 2, 3
ErrorKinds == {"PERMISSION_DENIED", "POSITION_UNAVAILABLE", "TIMEOUT"}

\* { lat, lng, timestamp: Date.now(), accuracy } built by both callbacks
Location(coords, t) ==
    [lat |-> coords.latitude, lng |-> coords.longitude,
     timestamp |-> t, accuracy |-> coords.accuracy]

(***************************************************************************)
(* JSON.  A text is a sequence of tokens, each a string; a number is       *)
(* written in decimal.  The texts of the model are arrays of location      *)
(* objects and the payloads of InitialPayloads.                            *)
(***************************************************************************)
Numbers ==
    UNION { {f.latitude, f.longitude, f.accuracy} : f \in Fixes \cup GridFixes }
        \cup (0 .. MaxEvents + 1)

JSONstringifyLocation(loc) ==
    << "{", "lat", ToString(loc.lat), "lng", ToString(loc.lng),
       "timestamp", ToString(loc.timestamp),
       "accuracy", ToString(loc.accuracy), "}" >>

RECURSIVE JSONstringifyItems(_)
JSONstringifyItems(arr) ==
    IF Len(arr) = 0 THEN <<>>
    ELSE IF Len(arr) = 1 THEN JSONstringifyLocation(arr[1])
    ELSE JSONstringifyLocation(arr[1]) \o <<",">> \o JSONstringifyItems(Tail(arr))

\* JSON.stringify(storedPath) for an array of locations
JSONstringify(arr) == <<"[">> \o JSONstringifyItems(arr) \o <<"]">>

IsNumberToken(tok) == \E n \in Numbers : ToString(n) = tok
ParseNumber(tok) == CHOOSE n \in Numbers : ToString(n) = tok

\* the ten tokens of one location object
IsObjectAt(text, i) ==
    /\ i + 9 <= Len(text)
    /\ text[i] = "{" /\ text[i + 1] = "lat" /\ IsNumberToken(text[i + 2])
    /\ text[i + 3] = "lng" /\ IsNumberToken(text[i + 4])
    /\ text[i + 5] = "timestamp" /\ IsNumberToken(text[i + 6])
    /\ text[i + 7] = "accuracy" /\ IsNumberToken(text[i + 8])
    /\ text[i + 9] = "}"

ParseObjectAt(text, i) ==
    [lat |-> ParseNumber(text[i + 2]), lng |-> ParseNumber(text[i + 4]),
     timestamp |-> ParseNumber(text[i + 6]), accuracy |-> ParseNumber(text[i + 8])]

\* the items of an array text from token i on; "bad" on a syntax error
RECURSIVE ParseItems(_, _)
ParseItems(text, i) ==
    IF ~IsObjectAt(text, i) THEN [ok |-> FALSE, items |-> <<>>]
    ELSE IF i + 10 = Len(text) /\ text[i + 10] = "]"
         THEN [ok |-> TRUE, items |-> <<ParseObjectAt(text, i)>>]
    ELSE IF i + 11 <= Len(text) /\ text[i + 10] = ","
         THEN LET rest == ParseItems(text, i + 11)
              IN  [ok |-> rest.ok,
                   items |-> <<ParseObjectAt(text, i)>> \o rest.items]
    ELSE [ok |-> FALSE, items |-> <<>>]

\* JSON.parse(text): kind "array" with its items, kind "string" with its
\* characters, another JSON value, or kind "SyntaxError" when JSON.parse throws
JSONparse(text) ==
    IF text = <<"[", "]">> THEN [kind |-> "array", items |-> <<>>]
    ELSE IF Len(text) >= 2 /\ text[1] = "["
         THEN LET r == ParseItems(text, 2)
              IN  IF r.ok THEN [kind |-> "array", items |-> r.items]
                  ELSE [kind |-> "SyntaxError", items |-> <<>>]
    ELSE IF text = <<"null">> THEN [kind |-> "null", items |-> <<>>]
    ELSE IF text = <<"\"a\"">> THEN [kind |-> "string", items |-> <<"a">>]
    ELSE IF text = <<"{", "}">> THEN [kind |-> "object", items |-> <<>>]
    ELSE [kind |-> "SyntaxError", items |-> <<>>]

\* localStorage.getItem('locationPath') || '[]'
NoItem == [present |-> FALSE, text |-> <<>>]
Item(text) == [present |-> TRUE, text |-> text]
GetItemOrEmpty(st) == IF st.present /\ st.text # <<>> THEN st.text ELSE <<"[", "]">>

\* what the 'locationPath' item holds when the page is first opened
InitialPayloads ==
    { NoItem,
      Item(<<"{">>),
      Item(<<"\"a\"">>),
      Item(JSONstringify(<<[lat |-> 2230720, lng |-> 7318120,
                            timestamp |-> 0, accuracy |-> 10]>>)) }


(***************************************************************************)
(* The platform.  navigator.wakeLock, where it exists, is a WakeLock: it   *)
(* has request() and no release(); a lock is released only through the     *)
(* sentinel its request resolves with.  quotaOk: localStorage.setItem      *)
(* does not throw (it throws where the quota is used up or is zero).       *)
(***************************************************************************)
Platform(g, p, w, s, y, q) ==
    [geolocation |-> g, permissions |-> p, wakeLock |-> w,
     serviceWorker |-> s, sync |-> y, quotaOk |-> q]

\* The platforms of the model.  The continuous variant reads only
\* navigator.geolocation.  For the background variant: a platform with none
\* of the capabilities, one with the sensor alone, that one with a
\* localStorage that rejects every write, one with the sensor and Permissions,
\* one with wake lock and service worker but neither Permissions nor
\* Background Sync, and one with all.
Envs(v) ==
    IF v = "continuous"
    THEN { Platform(g, FALSE, FALSE, FALSE, FALSE, TRUE) : g \in BOOLEAN }
    ELSE { Platform(FALSE, FALSE, FALSE, FALSE, FALSE, TRUE),
           Platform(TRUE, FALSE, FALSE, FALSE, FALSE, TRUE),
           Platform(TRUE, FALSE, FALSE, FALSE, FALSE, FALSE),
           Platform(TRUE, TRUE, FALSE, FALSE, FALSE, TRUE),
           Platform(TRUE, FALSE, TRUE, TRUE, FALSE, TRUE),
           Platform(TRUE, TRUE, TRUE, TRUE, TRUE, TRUE) }

\* saveLocationToStorage whose catch block writes a log of the new location
\* alone instead of leaving the item as it was
saveResetting(st, location) ==
    LET parsed == JSONparse(GetItemOrEmpty(st))
    IN  IF parsed.kind = "array" /\ env.quotaOk
        THEN [ok |-> TRUE,
              storage |-> Item(JSONstringify(Append(parsed.items, location)))]
        ELSE [ok |-> FALSE, storage |-> Item(JSONstringify(<<location>>))]

\* saveLocationToStorage starting from [] when the item does not parse to an
\* array, instead of failing
saveRepairing(st, location) ==
    LET parsed == JSONparse(GetItemOrEmpty(st))
        storedPath == IF parsed.kind = "array" THEN parsed.items ELSE <<>>
    IN  IF env.quotaOk
        THEN [ok |-> TRUE, storage |-> Item(JSONstringify(Append(storedPath, location)))]
        ELSE [ok |-> FALSE, storage |-> st]

\* saveLocationToStorage writing the new location alone instead of the
\* stored array with the location pushed
saveOverwriting(st, location) ==
    LET parsed == JSONparse(GetItemOrEmpty(st))
    IN  IF parsed.kind = "array" /\ env.quotaOk
        THEN [ok |-> TRUE, storage |-> Item(JSONstringify(<<location>>))]
        ELSE [ok |-> FALSE, storage |-> st]

(***************************************************************************)
(* saveLocationToStorage(location).  Every exception is caught; on one     *)
(* nothing is written.                                                     *)
(***************************************************************************)
saveLocationToStorage(st, location) ==
    LET parsed == JSONparse(GetItemOrEmpty(st))
    IN  IF parsed.kind = "array" /\ env.quotaOk
        THEN [ok |-> TRUE,
              storage |-> Item(JSONstringify(Append(parsed.items, location)))]
        ELSE [ok |-> FALSE, storage |-> st]

(***************************************************************************)
(* The debug text is held as the number of messages in it: NoText is "",   *)
(* Text(m) is setDebugInfo(m), Add(prev, m) is prev + "\n" + m.             *)
(***************************************************************************)
NoText == Len(<<>>)
Text(message) == Len(<<message>>)
Add(prev, message) == prev + Len(<<message>>)

(***************************************************************************)
(* The load effect run on mount: the path and the debug text after it.     *)
(* storedPath.length > 0 holds of a non-empty array and of a non-empty     *)
(* string, throws (caught) of null and is false of an object without       *)
(* length.  renders: the render after setPath(storedPath) returns; on a    *)
(* string it throws a TypeError at path.map.                               *)
(***************************************************************************)
LoadFromStorage(st) ==
    LET parsed == JSONparse(GetItemOrEmpty(st))
    IN  IF parsed.kind \in {"array", "string"} /\ Len(parsed.items) > 0
        THEN [path |-> parsed.items, debugInfo |-> Text("Loaded stored locations: n"),
              renders |-> (parsed.kind = "array")]
        ELSE [path |-> <<>>, debugInfo |-> NoText, renders |-> TRUE]

\* a state setter called on an unmounted component changes nothing
SetState(cur, new) == IF mounted THEN new ELSE cur

(***************************************************************************)
(* The state right after the page is loaded and the component mounted,     *)
(* with `st` in localStorage: the mount effects have run.  A render that   *)
(* throws unmounts the component (there is no error boundary).             *)
(***************************************************************************)
Mounted(v, e, st) ==
    [mounted |-> (v = "background" => LoadFromStorage(st).renders),
     path |-> IF v = "background" THEN LoadFromStorage(st).path ELSE <<>>,
     debugInfo |-> IF v = "background" THEN LoadFromStorage(st).debugInfo ELSE NoText,
     checkPending |-> (v = "background" /\ e.permissions),
     swPending |-> (v = "background" /\ e.serviceWorker)]

Init ==
    /\ variant \in Variants
    /\ env \in Envs(variant)
    /\ storage \in (IF variant = "background" THEN InitialPayloads ELSE {NoItem})
    \* setItem is never reached while the item does not parse to an array
    /\ JSONparse(GetItemOrEmpty(storage)).kind # "array" => env.quotaOk
    /\ mounted = Mounted(variant, env, storage).mounted
    /\ path = Mounted(variant, env, storage).path
    /\ debugInfo = Mounted(variant, env, storage).debugInfo
    /\ isTracking = FALSE
    /\ error = null
    /\ watchId = null
    /\ isBackgroundSupported = FALSE
    /\ serviceWorkerReg = FALSE
    /\ watches = {}
    /\ nextId = 1
    /\ pendingSeed = 0
    /\ startsAwaiting = <<>>
    /\ checkPending = Mounted(variant, env, storage).checkPending
    /\ swPending = Mounted(variant, env, storage).swPending
    /\ wakePending = 0
    /\ wakeHeld = 0
    /\ syncPending = 0
    /\ pendingCleanup = <<>>
    /\ lastThrow = (IF Mounted(variant, env, storage).mounted THEN "none" ELSE "TypeError")
    /\ now = 0
    /\ stopped = "no"
    /\ storage0 = storage
    /\ saved = <<>>
    /\ saveFailed = FALSE
    /\ currentPosition = null
    /\ captured = <<>>

platformVars == <<variant, env>>
reactCore == <<path, isTracking, error, watchId>>
sensorVars == <<watches, nextId, pendingSeed, startsAwaiting>>
asyncVars == <<checkPending, swPending, wakePending, wakeHeld, syncPending>>
historyVars == <<storage0, saved, saveFailed>>
\* state of the components of part_000, which the other two do not have
part000Vars == <<currentPosition, captured>>

\* navigator.geolocation.clearWatch(id): a no-op for a watch already cleared
clearWatch(w, id) == IF id = null THEN w ELSE w \ {id[1]}

\* React runs the cleanup of an effect whose dependency changed before the
\* next job; every other job waits for it
Idle == pendingCleanup = <<>>

\* the [watchId] effect after a render: old is the watchId of the render
\* before; the cleanup of a null watchId does nothing, so it is not queued
CleanupDue(old, new) ==
    IF mounted /\ old # null /\ old # new THEN <<old>> ELSE <<>>

(***************************************************************************)
(* startTracking from `setIsTracking(true)` to `setWatchId(id)`.           *)
(* reg: serviceWorkerReg of the render whose startTracking this is         *)
(* (setupBackgroundTracking reads it).                                     *)
(***************************************************************************)
StartBody(reg) ==
    /\ isTracking' = SetState(isTracking, TRUE)
    /\ wakePending' = wakePending +
           (IF variant = "background" /\ env.wakeLock THEN 1 ELSE 0)
    /\ syncPending' = syncPending +
           (IF variant = "background" /\ reg /\ env.sync THEN 1 ELSE 0)
    /\ pendingSeed' = pendingSeed + 1
    /\ watches' = watches \cup {nextId}
    /\ nextId' = nextId + 1
    /\ watchId' = SetState(watchId, <<nextId>>)
    /\ pendingCleanup' = CleanupDue(watchId, <<nextId>>)
    /\ debugInfo' = IF variant = "continuous"
                    THEN SetState(debugInfo, Text("Starting tracking..."))
                    ELSE debugInfo
    /\ lastThrow' = "none"
    /\ UNCHANGED <<mounted, path, error, isBackgroundSupported, serviceWorkerReg,
                   storage, checkPending, swPending, wakeHeld>>

\* the message of setError where navigator.geolocation is missing
NotSupported ==
    IF variant = "continuous" THEN "Geolocation is not supported by your browser"
                              ELSE "Geolocation is not supported"

\* startTracking without its `if (!navigator.geolocation)` return
startTrackingUnchecked ==
    /\ Idle /\ mounted /\ ~isTracking
    /\ now < MaxEvents
    /\ now' = now + 1
    /\ stopped' = "no"
    /\ UNCHANGED <<platformVars, part000Vars, historyVars>>
    /\ IF variant = "background" /\ env.permissions
       THEN /\ startsAwaiting' = Append(startsAwaiting, serviceWorkerReg)
            /\ lastThrow' = "none"
            /\ UNCHANGED <<mounted, reactCore, debugInfo, isBackgroundSupported,
                           serviceWorkerReg, storage, watches, nextId, pendingSeed,
                           asyncVars, pendingCleanup>>
       ELSE /\ StartBody(serviceWorkerReg)
            /\ UNCHANGED startsAwaiting

(***************************************************************************)
(* A click on the button while it offers Start: startTracking up to its    *)
(* first suspension (the await of the background variant) or to its end.   *)
(***************************************************************************)
startTracking ==
    /\ Idle /\ mounted /\ ~isTracking
    /\ now < MaxEvents
    /\ now' = now + 1
    /\ stopped' = "no"
    /\ UNCHANGED <<platformVars, part000Vars, historyVars>>
    /\ IF ~env.geolocation
       THEN /\ error' = SetState(error, <<NotSupported>>)
            /\ lastThrow' = "none"
            /\ UNCHANGED <<mounted, path, isTracking, watchId, debugInfo,
                           isBackgroundSupported, serviceWorkerReg, storage,
                           sensorVars, asyncVars, pendingCleanup>>
       ELSE IF variant = "background" /\ env.permissions
       THEN /\ startsAwaiting' = Append(startsAwaiting, serviceWorkerReg)
            /\ lastThrow' = "none"
            /\ UNCHANGED <<mounted, reactCore, debugInfo, isBackgroundSupported,
                           serviceWorkerReg, storage, watches, nextId, pendingSeed,
                           asyncVars, pendingCleanup>>
       ELSE /\ StartBody(serviceWorkerReg)
            /\ UNCHANGED startsAwaiting

RemoveAt(q, i) == SubSeq(q, 1, i - 1) \o SubSeq(q, i + 1, Len(q))

\* navigator.permissions.query resolved: a suspended startTracking goes on
PermissionQueryResolved ==
    \E i \in 1 .. Len(startsAwaiting) :
        /\ Idle
        /\ startsAwaiting' = RemoveAt(startsAwaiting, i)
        /\ StartBody(startsAwaiting[i])
        /\ UNCHANGED <<platformVars, part000Vars, now, stopped, historyVars>>

\* navigator.permissions.query rejected: the catch of startTracking
PermissionQueryRejected ==
    \E i \in 1 .. Len(startsAwaiting) :
        /\ Idle
        /\ startsAwaiting' = RemoveAt(startsAwaiting, i)
        /\ error' = SetState(error, <<"Background location permission denied">>)
        /\ lastThrow' = "none"
        /\ UNCHANGED <<platformVars, part000Vars, mounted, path, isTracking, watchId, debugInfo,
                       isBackgroundSupported, serviceWorkerReg, storage, watches,
                       nextId, pendingSeed, asyncVars, pendingCleanup, 
                       now, stopped, historyVars>>

(***************************************************************************)
(* stopTracking() of a render whose watchId is w.  In the background       *)
(* variant it ends with navigator.wakeLock.release(), which throws a       *)
(* TypeError where navigator.wakeLock exists (a WakeLock has no release).  *)
(***************************************************************************)
StopThrows == variant = "background" /\ env.wakeLock

\* stopTracking without its navigator.geolocation.clearWatch(watchId)
StopBodyKeepsWatch(w) ==
    /\ watches' = watches
    /\ watchId' = IF w # null THEN SetState(watchId, null) ELSE watchId
    /\ isTracking' = SetState(isTracking, FALSE)
    /\ debugInfo' = IF variant = "continuous"
                    THEN SetState(debugInfo, Add(debugInfo, "Tracking stopped"))
                    ELSE debugInfo
    /\ lastThrow' = IF StopThrows THEN "TypeError" ELSE "none"

StopBody(w) ==
    /\ watches' = clearWatch(watches, w)
    /\ watchId' = IF w # null THEN SetState(watchId, null) ELSE watchId
    /\ isTracking' = SetState(isTracking, FALSE)
    /\ debugInfo' = IF variant = "continuous"
                    THEN SetState(debugInfo, Add(debugInfo, "Tracking stopped"))
                    ELSE debugInfo
    /\ lastThrow' = IF StopThrows THEN "TypeError" ELSE "none"

\* a click on the button while it offers Stop
stopTracking ==
    /\ Idle /\ mounted /\ isTracking
    /\ now < MaxEvents
    /\ now' = now + 1
    /\ StopBody(watchId)
    /\ pendingCleanup' = CleanupDue(watchId, null)
    /\ stopped' = IF StopThrows THEN "threw" ELSE "returned"
    /\ UNCHANGED <<platformVars, part000Vars, mounted, path, error, isBackgroundSupported,
                   serviceWorkerReg, storage, nextId, pendingSeed, startsAwaiting,
                   asyncVars, historyVars>>

(***************************************************************************)
(* The cleanup of the [watchId] effect of an earlier render, whose watchId *)
(* was pendingCleanup[1].                                                  *)
(*   continuous: clearWatch.                                               *)
(*   background: clearWatch, then stopTracking() of that render.  When it  *)
(*     throws, the exception leaves an effect cleanup: React unmounts the  *)
(*     component, and the cleanup of the current effect runs too.          *)
(***************************************************************************)
EffectCleanup ==
    /\ pendingCleanup # <<>>
    /\ LET old == pendingCleanup[1]
       IN  IF variant = "continuous"
           THEN /\ watches' = clearWatch(watches, old)
                /\ pendingCleanup' = <<>>
                /\ lastThrow' = "none"
                /\ UNCHANGED <<mounted, watchId, isTracking, debugInfo>>
           ELSE IF StopThrows
           THEN /\ watches' = clearWatch(clearWatch(watches, old), watchId)
                /\ mounted' = FALSE
                /\ pendingCleanup' = <<>>
                /\ lastThrow' = "TypeError"
                /\ UNCHANGED <<watchId, isTracking, debugInfo>>
           ELSE /\ StopBody(old)
                /\ pendingCleanup' = CleanupDue(watchId, null)
                /\ UNCHANGED mounted
    /\ UNCHANGED <<platformVars, part000Vars, path, error, isBackgroundSupported,
                   serviceWorkerReg, storage, nextId, pendingSeed, startsAwaiting,
                   asyncVars, now, stopped, historyVars>>


(***************************************************************************)
(* Sensor callbacks.                                                       *)
(***************************************************************************)
\* the success callback of getCurrentPosition
SeedFix ==
    \E f \in Fixes :
        /\ Idle
        /\ pendingSeed > 0
        /\ now < MaxEvents
        /\ now' = now + 1
        /\ pendingSeed' = pendingSeed - 1
        /\ LET initialLocation == Location(f, now')
               r == saveLocationToStorage(storage, initialLocation)
           IN  /\ path' = SetState(path, <<initialLocation>>)
               /\ IF variant = "background"
                  THEN /\ storage' = r.storage
                       /\ saved' = IF r.ok THEN Append(saved, initialLocation) ELSE saved
                       /\ saveFailed' = (saveFailed \/ ~r.ok)
                       /\ storage0' = storage0
                       /\ debugInfo' = IF r.ok
                             THEN SetState(debugInfo, Add(debugInfo, "Location saved to storage"))
                             ELSE debugInfo
                  ELSE /\ debugInfo' = SetState(debugInfo, Add(debugInfo, "Got initial position"))
                       /\ UNCHANGED <<storage, historyVars>>
        /\ lastThrow' = "none"
        /\ UNCHANGED <<platformVars, part000Vars, mounted, isTracking, error, watchId,
                       isBackgroundSupported, serviceWorkerReg, watches, nextId,
                       startsAwaiting, asyncVars, pendingCleanup, stopped>>

\* the error callback of getCurrentPosition
SeedError ==
    \E kind \in ErrorKinds :
        /\ Idle
        /\ pendingSeed > 0
        /\ now < MaxEvents
        /\ now' = now + 1
        /\ pendingSeed' = pendingSeed - 1
        /\ error' = SetState(error, <<"Initial position error", kind>>)
        /\ debugInfo' = IF variant = "continuous"
                        THEN SetState(debugInfo, Add(debugInfo, "Initial position error"))
                        ELSE debugInfo
        /\ lastThrow' = "none"
        /\ UNCHANGED <<platformVars, part000Vars, mounted, path, isTracking, watchId,
                       isBackgroundSupported, serviceWorkerReg, storage, watches,
                       nextId, startsAwaiting, asyncVars, pendingCleanup, 
                       stopped, historyVars>>

(***************************************************************************)
(* The success callback of a watch.  updaterRuns: React calls the function *)
(* passed to setPath; it does whenever the component is mounted, and may   *)
(* or may not for an unmounted one.                                        *)
(***************************************************************************)
WatchFixOf(f) ==
    \E id \in watches, updaterRuns \in BOOLEAN :
        /\ Idle
        /\ now < MaxEvents
        /\ mounted => updaterRuns
        /\ now' = now + 1
        /\ LET newLocation == Location(f, now')
               lastLocation == LastOf(path)
               add == updaterRuns /\ isSignificantMove(newLocation, lastLocation)
               r == saveLocationToStorage(storage, newLocation)
           IN  /\ path' = IF add THEN SetState(path, Append(path, newLocation)) ELSE path
               /\ IF variant = "background"
                  THEN /\ storage' = IF add THEN r.storage ELSE storage
                       /\ saved' = IF add /\ r.ok THEN Append(saved, newLocation) ELSE saved
                       /\ saveFailed' = (saveFailed \/ (add /\ ~r.ok))
                       /\ storage0' = storage0
                       /\ debugInfo' = IF add /\ r.ok
                             THEN SetState(debugInfo, Add(debugInfo, "Location saved to storage"))
                             ELSE debugInfo
                       /\ error' = error
                  ELSE /\ debugInfo' = SetState(debugInfo,
                             Add(Add(debugInfo, "New location received"),
                                 IF add THEN "Adding new point to path"
                                        ELSE "Ignoring duplicate location"))
                       /\ error' = SetState(error, null)
                       /\ UNCHANGED <<storage, historyVars>>
        /\ lastThrow' = "none"
        /\ UNCHANGED <<platformVars, part000Vars, mounted, isTracking, watchId,
                       isBackgroundSupported, serviceWorkerReg, watches, nextId,
                       pendingSeed, startsAwaiting, asyncVars, pendingCleanup,
                       stopped>>

WatchFix == \E f \in Fixes : WatchFixOf(f)

\* a watch error callback that also leaves tracking: setIsTracking(false)
WatchErrorLeavesTracking ==
    \E id \in watches, kind \in ErrorKinds :
        /\ Idle
        /\ now < MaxEvents
        /\ now' = now + 1
        /\ error' = SetState(error,
               IF variant = "continuous" THEN <<"Failed to get location", kind>>
                                         ELSE <<"Location error", kind>>)
        /\ isTracking' = SetState(isTracking, FALSE)
        /\ debugInfo' = IF variant = "continuous"
                        THEN SetState(debugInfo, Add(debugInfo, "Location error"))
                        ELSE debugInfo
        /\ lastThrow' = "none"
        /\ UNCHANGED <<platformVars, part000Vars, mounted, path, watchId,
                       isBackgroundSupported, serviceWorkerReg, storage, watches,
                       nextId, pendingSeed, startsAwaiting, asyncVars, pendingCleanup,
                       stopped, historyVars>>

\* the error callback of a watch
WatchError ==
    \E id \in watches, kind \in ErrorKinds :
        /\ Idle
        /\ now < MaxEvents
        /\ now' = now + 1
        /\ error' = SetState(error,
               IF variant = "continuous" THEN <<"Failed to get location", kind>>
                                         ELSE <<"Location error", kind>>)
        /\ debugInfo' = IF variant = "continuous"
                        THEN SetState(debugInfo, Add(debugInfo, "Location error"))
                        ELSE debugInfo
        /\ lastThrow' = "none"
        /\ UNCHANGED <<platformVars, part000Vars, mounted, path, isTracking, watchId,
                       isBackgroundSupported, serviceWorkerReg, storage, watches,
                       nextId, pendingSeed, startsAwaiting, asyncVars, pendingCleanup,
                       stopped, historyVars>>

(***************************************************************************)
(* Promise settlements of the background variant.                          *)
(***************************************************************************)
counters == <<pendingCleanup, now, stopped>>

\* navigator.wakeLock.request('screen') settled; the sentinel is dropped
WakeLockSettled ==
    \E granted \in BOOLEAN :
        /\ Idle
        /\ wakePending > 0
        /\ wakePending' = wakePending - 1
        /\ wakeHeld' = IF granted THEN wakeHeld + 1 ELSE wakeHeld
        /\ debugInfo' = SetState(debugInfo,
               Add(debugInfo, IF granted THEN "Wake lock acquired" ELSE "Wake lock error"))
        /\ lastThrow' = "none"
        /\ UNCHANGED <<platformVars, part000Vars, mounted, reactCore, isBackgroundSupported,
                       serviceWorkerReg, storage, sensorVars, checkPending,
                       swPending, syncPending, counters, historyVars>>

\* serviceWorkerReg.sync.register('locationSync') settled
SyncSettled ==
    \E registered \in BOOLEAN :
        /\ Idle
        /\ syncPending > 0
        /\ syncPending' = syncPending - 1
        /\ debugInfo' = SetState(debugInfo,
               Add(debugInfo, IF registered THEN "Background sync registered"
                                               ELSE "Background sync error"))
        /\ lastThrow' = "none"
        /\ UNCHANGED <<platformVars, part000Vars, mounted, reactCore, isBackgroundSupported,
                       serviceWorkerReg, storage, sensorVars, checkPending,
                       swPending, wakePending, wakeHeld, counters, historyVars>>

\* navigator.serviceWorker.register('/service-worker.js') settled
ServiceWorkerSettled ==
    \E registered \in BOOLEAN :
        /\ Idle
        /\ swPending
        /\ swPending' = FALSE
        /\ serviceWorkerReg' = SetState(serviceWorkerReg, registered)
        /\ debugInfo' = SetState(debugInfo,
               Add(debugInfo, IF registered THEN "Service Worker registered"
                                               ELSE "Service Worker registration failed"))
        /\ lastThrow' = "none"
        /\ UNCHANGED <<platformVars, part000Vars, mounted, reactCore, isBackgroundSupported,
                       storage, sensorVars, checkPending, wakePending, wakeHeld,
                       syncPending, counters, historyVars>>

\* checkBackgroundSupport after its await: setDebugInfo replaces the text
checkBackgroundSupport ==
    \E resolved \in BOOLEAN :
        /\ Idle
        /\ checkPending
        /\ checkPending' = FALSE
        /\ isBackgroundSupported' = SetState(isBackgroundSupported, resolved)
        /\ debugInfo' = SetState(debugInfo,
               IF resolved THEN Text("Background location supported")
                           ELSE Text("Background location not supported"))
        /\ lastThrow' = "none"
        /\ UNCHANGED <<platformVars, part000Vars, mounted, reactCore, serviceWorkerReg, storage,
                       sensorVars, swPending, wakePending, wakeHeld, syncPending,
                       counters, historyVars>>

(***************************************************************************)
(* The component is disposed: the cleanup of the [watchId] effect of the   *)
(* current render runs.  In the background variant it also calls           *)
(* stopTracking(), whose state setters no longer change anything.          *)
(***************************************************************************)
Unmount ==
    /\ Idle /\ mounted
    /\ now < MaxEvents
    /\ now' = now + 1
    /\ mounted' = FALSE
    /\ watches' = clearWatch(watches, watchId)
    /\ lastThrow' = IF StopThrows /\ watchId # null THEN "TypeError" ELSE "none"
    /\ UNCHANGED <<platformVars, part000Vars, reactCore, debugInfo, isBackgroundSupported,
                   serviceWorkerReg, storage, nextId, pendingSeed, startsAwaiting,
                   asyncVars, pendingCleanup, stopped, historyVars>>

(***************************************************************************)
(* The page is loaded again: every watch, request, promise and wake lock   *)
(* of the old page is gone, localStorage stays, the component mounts.      *)
(***************************************************************************)
Reload ==
    /\ now < MaxEvents
    /\ now' = now + 1
    /\ mounted' = Mounted(variant, env, storage).mounted
    /\ path' = Mounted(variant, env, storage).path
    /\ debugInfo' = Mounted(variant, env, storage).debugInfo
    /\ isTracking' = FALSE
    /\ error' = null
    /\ watchId' = null
    /\ isBackgroundSupported' = FALSE
    /\ serviceWorkerReg' = FALSE
    /\ watches' = {}
    /\ nextId' = 1
    /\ pendingSeed' = 0
    /\ startsAwaiting' = <<>>
    /\ checkPending' = Mounted(variant, env, storage).checkPending
    /\ swPending' = Mounted(variant, env, storage).swPending
    /\ wakePending' = 0
    /\ wakeHeld' = 0
    /\ syncPending' = 0
    /\ pendingCleanup' = <<>>
    /\ lastThrow' = (IF Mounted(variant, env, storage).mounted THEN "none" ELSE "TypeError")
    /\ stopped' = "no"
    /\ UNCHANGED <<platformVars, part000Vars, storage, historyVars>>

Next ==
    \/ startTracking
    \/ PermissionQueryResolved
    \/ PermissionQueryRejected
    \/ stopTracking
    \/ EffectCleanup
    \/ SeedFix
    \/ SeedError
    \/ WatchFix
    \/ WatchError
    \/ WakeLockSettled
    \/ SyncSettled
    \/ ServiceWorkerSettled
    \/ checkBackgroundSupport
    \/ Unmount
    \/ Reload

Spec == Init /\ [][Next]_vars


(***************************************************************************)
(* Properties.                                                             *)
(***************************************************************************)
IsPrefix(p, q) == Len(p) <= Len(q) /\ SubSeq(q, 1, Len(p)) = p

\* C1: once stopTracking() has returned, a sensor success callback (of the
\* watch or of the pending getCurrentPosition) changes neither the path (and
\* with it the position the map is centred on) nor the durable log.
C1_DiscardAfterStop ==
    [][(stopped = "returned" /\ mounted /\ (SeedFix \/ WatchFix))
          => (path' = path /\ storage' = storage)]_vars

\* C2: while tracking, every sensor callback (seed, watch fix, error) leaves
\* the path before the step a prefix of the path after it.
C2_AppendOnly ==
    [][(mounted /\ isTracking /\ (SeedFix \/ SeedError \/ WatchFix \/ WatchError))
          => IsPrefix(path, path')]_vars

\* C3: in every reachable state every adjacent pair (earlier, later) of the
\* path satisfies isSignificantMove(later, earlier).
C3_PathAdjacency ==
    \A i \in 1 .. Len(path) - 1 : isSignificantMove(path[i + 1], <<path[i]>>)

\* C4: after stopTracking() was invoked while tracking (and until the next
\* start) no handle is stored, isTracking is false, the subscription is
\* cancelled and no wake lock is held, whenever its request resolved.
C4_StopReleases ==
    (stopped # "no" /\ startsAwaiting = <<>>)
        => (watchId = null /\ ~isTracking /\ watches = {} /\ wakeHeld = 0)

\* C5: once the component is disposed there is no active sensor subscription
\* and no held wake lock, also when startTracking() was suspended at its await.
C5_TeardownReleases ==
    ~mounted => (watches = {} /\ wakeHeld = 0)

\* C6: a watch error of kind PERMISSION_DENIED delivered while tracking leaves
\* tracking, cancels the subscription, drops the handle and records the error.
C6_FatalErrorStops ==
    [][(mounted /\ isTracking /\ WatchError /\ error'[2] = "PERMISSION_DENIED")
          => (~isTracking' /\ watchId' = null /\ watches' = {} /\ error' # null)]_vars

TransientKinds == {"POSITION_UNAVAILABLE", "TIMEOUT"}

\* the error state a watch error callback of a transient kind sets
TransientError(e) ==
    /\ Len(e) = 2
    /\ e[1] \in {"Location error", "Failed to get location"}
    /\ e[2] \in TransientKinds

\* C7: a watch error of kind POSITION_UNAVAILABLE or TIMEOUT delivered while
\* tracking keeps isTracking, the subscription and the stored handle, records
\* the error and leaves the path; and a fix delivered while such an error is
\* recorded is appended exactly when it passes isSignificantMove.
C7_TransientErrorKeepsTracking ==
    [][/\ (mounted /\ isTracking /\ WatchError /\ TransientError(error'))
            => /\ isTracking' /\ watches' = watches /\ watchId' = watchId
               /\ watchId # null /\ watchId[1] \in watches
               /\ path' = path
       /\ (mounted /\ isTracking /\ WatchFix /\ TransientError(error))
            => \E f \in Fixes :
                 path' = IF isSignificantMove(Location(f, now'), LastOf(path))
                         THEN Append(path, Location(f, now')) ELSE path]_vars

\* C7 witness: a transient error is recorded, tracking goes on, and the fix
\* that came after the error is the last point of the path, behind the point
\* the path was loaded with.
C7_Witness ==
    /\ mounted /\ isTracking /\ TransientError(error)
    /\ watchId # null /\ watchId[1] \in watches
    /\ Len(path) = 2 /\ path[1].timestamp = 0 /\ path[2].timestamp = now

\* C8: startTracking() without navigator.geolocation records the error, leaves
\* isTracking false, the path and the handle as they were, and issues no
\* getCurrentPosition, watchPosition, wake-lock request or sync registration.
C8_SensorUnavailableAtStart ==
    [][(startTracking /\ ~env.geolocation)
          => /\ error' = <<NotSupported>>
             /\ ~isTracking' /\ path' = path /\ watchId' = null
             /\ pendingSeed' = pendingSeed /\ watches' = watches
             /\ wakePending' = wakePending /\ syncPending' = syncPending
             /\ startsAwaiting' = startsAwaiting]_vars

\* C8 witness: the start was refused for want of the sensor
C8_Witness ==
    /\ ~env.geolocation /\ error = <<NotSupported>>
    /\ ~isTracking /\ watchId = null /\ watches = {} /\ pendingSeed = 0

\* C9: stopTracking() invoked directly after a first stopTracking() (as the
\* effect cleanup of the background variant does), with no handle stored and
\* not tracking, changes no state and raises no error.
C9_StopIdempotent ==
    [][(variant = "background" /\ watchId = null /\ ~isTracking /\ EffectCleanup)
          => /\ UNCHANGED <<mounted, isTracking, watchId, path, error, debugInfo, storage>>
             /\ lastThrow' = "none"]_vars

\* C10: starting from an empty durable log, as long as every save succeeded,
\* the log read back as the load effect reads it is exactly the saved
\* locations in the order they were saved.
C10_StorageRoundTrip ==
    (storage0 = NoItem /\ ~saveFailed) => LoadFromStorage(storage).path = saved

\* C10 witness: two locations saved to a log that started empty
C10_Witness ==
    storage0 = NoItem /\ ~saveFailed /\ Len(saved) = 2

\* the next saveLocationToStorage call fails: JSON.parse, push or setItem throws
SaveFails == \A f \in Fixes : ~saveLocationToStorage(storage, Location(f, now + 1)).ok

\* C11: when saveLocationToStorage fails while a sensor success callback
\* records a fix during tracking, the path gains the fix as it would have
\* without the failure (the seed becomes the path, a watch fix is appended when
\* it passes isSignificantMove), isTracking stays true, the subscription and
\* its handle stay, and the durable log is left exactly as it was.
C11_StorageFailureNonFatal ==
    [][(variant = "background" /\ mounted /\ isTracking /\ SaveFails
            /\ (SeedFix \/ WatchFix))
          => /\ storage' = storage
             /\ isTracking' /\ watches' = watches /\ watchId' = watchId
             /\ \E f \in Fixes :
                  \/ SeedFix /\ path' = <<Location(f, now')>>
                  \/ WatchFix /\ path' =
                        IF isSignificantMove(Location(f, now'), LastOf(path))
                        THEN Append(path, Location(f, now')) ELSE path]_vars

\* C11 witness: a watch fix was accepted into the path behind an earlier point
\* while its save failed; tracking goes on and the durable log is the one the
\* page opened with
C11_Witness ==
    /\ variant = "background" /\ mounted /\ isTracking /\ SaveFails /\ saveFailed
    /\ watchId # null /\ watchId[1] \in watches
    /\ Len(path) = 2 /\ path[2].timestamp = now /\ saved = <<>>
    /\ storage = storage0

\* the 'locationPath' item is absent or is not a JSON array of positions
Malformed(st) == ~st.present \/ JSONparse(st.text).kind # "array"

\* the component after a load of an absent or malformed item: mounted, with
\* an empty path and no error
LoadedAsEmpty == Malformed(storage) => (mounted /\ path = <<>> /\ error = null)

\* C12: when the 'locationPath' item is absent or is not a JSON array of
\* positions, the load on mount of a page load leaves the component mounted
\* with an empty path and no error, and a startTracking() that reaches the
\* sensor then sets isTracking and stores the handle of a new subscription.
C12_MalformedPayloadIsEmpty ==
    [][/\ (Reload => LoadedAsEmpty')
       /\ ((Malformed(storage) /\ mounted /\ env.geolocation
              /\ (PermissionQueryResolved
                    \/ (startTracking /\ ~env.permissions)))
            => (isTracking' /\ watchId' # null /\ watchId'[1] \in watches'))]_vars

\* the path holds no point that was in the durable log when the page opened
NoStoredPoint == \A i \in 1 .. Len(path) : path[i].timestamp > 0

\* C13: during tracking, on a path that holds only points of sensor callbacks,
\* every success callback (the seed or a watch fix, in either arrival order)
\* leaves the path as it was or appends its fix, appending exactly when the
\* fix passes isSignificantMove against the last entry; the seed never
\* replaces or removes entries.
C13_SeedWatchTieBreak ==
    [][(mounted /\ isTracking /\ NoStoredPoint /\ (SeedFix \/ WatchFix))
          => \E f \in Fixes :
               path' = IF isSignificantMove(Location(f, now'), LastOf(path))
                       THEN Append(path, Location(f, now')) ELSE path]_vars

\* C14: a watchPosition success callback delivered while tracking leaves no
\* recorded error, whether or not its fix is accepted into the path.
C14_FixClearsError ==
    [][(mounted /\ isTracking /\ WatchFix) => error' = null]_vars

\* const defaultCenter = { lat: 22.3072, lng: 73.1812 }
defaultCenter == [lat |-> 2230720, lng |-> 7318120]

\* center: the position the map is centred on, the last entry of the path or
\* defaultCenter for an empty path
center ==
    IF Len(path) > 0 THEN [lat |-> path[Len(path)].lat, lng |-> path[Len(path)].lng]
    ELSE defaultCenter

\* C15: when a watchPosition success callback delivers, while tracking, a fix
\* that does not pass isSignificantMove against the last path entry, the path
\* is left as it was and the map is centred on that fix afterwards.
C15_FixUpdatesCurrentPosition ==
    [][\A f \in Fixes :
          (mounted /\ isTracking /\ WatchFixOf(f)
             /\ ~isSignificantMove(Location(f, now'), LastOf(path)))
          => (path' = path /\ center' = [lat |-> f.latitude, lng |-> f.longitude])]_vars

\* C16: where the sensor is available, a startTracking() of the mounted
\* component reaches tracking (isTracking true, the handle of an active
\* subscription stored, no error recorded by it) for every outcome of its
\* permission query: resolved, rejected, or not made for want of
\* navigator.permissions; and no outcome of the capability probe, of the
\* wake-lock request or of the sync registration records an error, changes
\* isTracking or touches the subscription.
C16_BackgroundNeverBlocksStart ==
    [][/\ ((mounted /\ env.geolocation
             /\ (PermissionQueryResolved \/ PermissionQueryRejected
                   \/ (startTracking /\ ~env.permissions)))
           => (isTracking' /\ watchId' # null /\ watchId'[1] \in watches'
                 /\ error' = error))
       /\ ((checkBackgroundSupport \/ WakeLockSettled \/ SyncSettled)
           => UNCHANGED <<error, isTracking, watchId, watches>>)]_vars

(***************************************************************************)
(* isSignificantMove on a grid of coordinates.  The component is taken     *)
(* while it tracks, on a platform with the sensor alone and with no item   *)
(* in localStorage, with a path of at most one point                       *)
(* of the grid; each step is a watchPosition success callback that         *)
(* delivers a point of the grid and applies isSignificantMove to it and    *)
(* the last entry of the path (GridFixes).                                 *)
(***************************************************************************)
InitFilter ==
    /\ variant \in Variants
    /\ env = Platform(TRUE, FALSE, FALSE, FALSE, FALSE, TRUE)
    /\ storage = NoItem
    /\ mounted = TRUE
    /\ path \in {<<>>} \cup { <<Location(g, 0)>> : g \in GridFixes }
    /\ debugInfo = Text("Starting tracking...")
    /\ isTracking = TRUE
    /\ error = null
    /\ watchId = <<1>>
    /\ isBackgroundSupported = FALSE
    /\ serviceWorkerReg = FALSE
    /\ watches = {1}
    /\ nextId = 2
    /\ pendingSeed = 0
    /\ startsAwaiting = <<>>
    /\ checkPending = FALSE
    /\ swPending = FALSE
    /\ wakePending = 0
    /\ wakeHeld = 0
    /\ syncPending = 0
    /\ pendingCleanup = <<>>
    /\ lastThrow = "none"
    /\ now = 0
    /\ stopped = "no"
    /\ storage0 = storage
    /\ saved = <<>>
    /\ saveFailed = FALSE
    /\ currentPosition = null
    /\ captured = <<>>

GridFix == \E g \in GridFixes : WatchFixOf(g)

NextFilter == GridFix

SpecFilter == InitFilter /\ [][NextFilter]_vars

\* |a - b| for coordinates in units of 0.00001 degree
AbsDiff(a, b) == IF a >= b THEN a - b ELSE b - a

\* the reference filter: true when last is absent, otherwise true exactly
\* when a difference of the two positions exceeds 0.00001 degree on an axis
ReferenceFilter(candidate, last) ==
    IF last = <<>> THEN TRUE
    ELSE \/ AbsDiff(candidate.lat, last[1].lat) > 1
         \/ AbsDiff(candidate.lng, last[1].lng) > 1

\* C17: for every point of the grid a watch callback delivers and every last
\* path entry (absent, or a point of the grid), the callback appends the point
\* exactly when the reference filter holds of the two: isSignificantMove is
\* true when last is absent, true when a difference exceeds 0.00001 degree,
\* and false when both differences are at most 0.00001 degree.
C17_SignificantMoveIsReference ==
    [][\A g \in GridFixes :
          WatchFixOf(g)
            => /\ isSignificantMove(Location(g, now'), LastOf(path))
                    = ReferenceFilter(Location(g, now'), LastOf(path))
               /\ (path' = Append(path, Location(g, now')))
                    = ReferenceFilter(Location(g, now'), LastOf(path))]_vars

\* the three fixes of the scenario, in the order the watch delivers them
ScenarioA ==
    << [latitude |-> 2230720, longitude |-> 7318120, accuracy |-> 10],
       [latitude |-> 2230721, longitude |-> 7318121, accuracy |-> 10],
       [latitude |-> 2231000, longitude |-> 7318120, accuracy |-> 10] >>

\* C18: from an empty path, when the watch delivers (22.30720, 73.18120),
\* (22.30721, 73.18121), (22.31000, 73.18120) in that order, the first is
\* appended, the second leaves the path as it was, and the third is appended:
\* the path is exactly the first and the third.
C18_ScenarioA ==
    [][/\ (path = <<>> /\ now = 0 /\ WatchFixOf(ScenarioA[1]))
            => path' = <<Location(ScenarioA[1], 1)>>
       /\ (path = <<Location(ScenarioA[1], 1)>> /\ now = 1 /\ WatchFixOf(ScenarioA[2]))
            => path' = path
       /\ (path = <<Location(ScenarioA[1], 1)>> /\ now = 2 /\ WatchFixOf(ScenarioA[3]))
            => path' = <<Location(ScenarioA[1], 1), Location(ScenarioA[3], 3)>>]_vars

\* C18 witness: the path after the three fixes of the scenario
C18_Witness ==
    /\ now = 3 /\ isTracking /\ mounted
    /\ path = <<Location(ScenarioA[1], 1), Location(ScenarioA[3], 3)>>

\* C19: in every state of the mounted background component in which no save
\* has failed and the 'locationPath' item is absent or parses to an array, the
\* positions of the durable log, read as the load effect reads them, are the
\* in-memory path.
C19_LogMirrorsPath ==
    (variant = "background" /\ mounted /\ ~saveFailed
        /\ JSONparse(GetItemOrEmpty(storage)).kind = "array")
      => LoadFromStorage(storage).path = path

Part000Variants == {"current", "rounding"}

\* Number(coord.toFixed(4)): the multiple of 10^-4 nearest to the double; a
\* fifth digit 5 goes up when the double is not below the decimal (the
\* decimal c * 10^-5 is c * U0 + c * 0.10656 units of 2^-48)
roundCoordinate(c) ==
    LET d == c % 10
        up == d > 5 \/ (d = 5 /\ F64lo(c) * 100000 >= c * 10656)
    IN  IF up THEN c - d + 10 ELSE c - d

\* isSignificantMove of the rounding component: the rounded coordinates differ
isSignificantMoveRounded(newLocation, lastLocation) ==
    IF lastLocation = <<>> THEN TRUE
    ELSE \/ roundCoordinate(newLocation.lat) # roundCoordinate(lastLocation[1].lat)
         \/ roundCoordinate(newLocation.lng) # roundCoordinate(lastLocation[1].lng)

\* { ...newLocation, lat: roundCoordinate(lat), lng: roundCoordinate(lng) }
Rounded(location) ==
    [location EXCEPT !.lat = roundCoordinate(location.lat),
                     !.lng = roundCoordinate(location.lng)]

InitPart000 ==
    /\ variant \in Part000Variants
    /\ env \in {Platform(g, FALSE, FALSE, FALSE, FALSE, TRUE) : g \in BOOLEAN}
    /\ storage = NoItem
    /\ mounted = TRUE
    /\ path = <<>>
    /\ currentPosition = null
    /\ isTracking = FALSE
    /\ error = null
    /\ watchId = null
    /\ captured = <<>>
    /\ debugInfo = NoText
    /\ isBackgroundSupported = FALSE
    /\ serviceWorkerReg = FALSE
    /\ watches = {}
    /\ nextId = 1
    /\ pendingSeed = 0
    /\ startsAwaiting = <<>>
    /\ checkPending = FALSE
    /\ swPending = FALSE
    /\ wakePending = 0
    /\ wakeHeld = 0
    /\ syncPending = 0
    /\ pendingCleanup = <<>>
    /\ lastThrow = "none"
    /\ now = 0
    /\ stopped = "no"
    /\ storage0 = storage
    /\ saved = <<>>
    /\ saveFailed = FALSE

\* what no component of part_000 has or touches
notInPart000 ==
    <<platformVars, debugInfo, isBackgroundSupported, serviceWorkerReg, storage,
      startsAwaiting, asyncVars, lastThrow, stopped, historyVars>>

(***************************************************************************)
(* A click on the button while it offers Start.  The rounding component    *)
(* stores the id of the watch; its callbacks belong to the render that was *)
(* clicked, so their stopTracking reads the watchId of that render.  The   *)
(* current-position component drops the id.                                *)
(***************************************************************************)
startTrackingPart000 ==
    /\ Idle /\ mounted /\ ~isTracking
    /\ now < MaxEvents
    /\ now' = now + 1
    /\ IF ~env.geolocation
       THEN /\ error' = <<"Geolocation is not supported by your browser">>
            /\ UNCHANGED <<isTracking, watchId, watches, nextId, pendingSeed,
                           captured, pendingCleanup>>
       ELSE /\ isTracking' = TRUE
            /\ watches' = watches \cup {nextId}
            /\ nextId' = nextId + 1
            /\ error' = error
            /\ IF variant = "current"
               THEN /\ pendingSeed' = pendingSeed + 1
                    /\ UNCHANGED <<watchId, captured, pendingCleanup>>
               ELSE /\ watchId' = <<nextId>>
                    /\ captured' = Append(captured, watchId)
                    /\ pendingCleanup' = CleanupDue(watchId, <<nextId>>)
                    /\ UNCHANGED pendingSeed
    /\ UNCHANGED <<notInPart000, mounted, path, currentPosition>>

\* stopTracking() of a render of the rounding component whose watchId is w
stopTrackingRounding(w) ==
    /\ watches' = clearWatch(watches, w)
    /\ watchId' = IF w # null THEN SetState(watchId, null) ELSE watchId
    /\ isTracking' = SetState(isTracking, FALSE)
    /\ pendingCleanup' = CleanupDue(watchId, watchId')

\* a click on the button while it offers Stop
stopTrackingPart000 ==
    /\ Idle /\ mounted /\ isTracking
    /\ now < MaxEvents
    /\ now' = now + 1
    /\ IF variant = "current"
       THEN /\ isTracking' = FALSE
            /\ UNCHANGED <<watches, watchId, pendingCleanup>>
       ELSE stopTrackingRounding(watchId)
    /\ UNCHANGED <<notInPart000, mounted, path, currentPosition, error, nextId,
                   pendingSeed, captured>>

\* the cleanup of the [watchId] effect of the rounding component
EffectCleanupPart000 ==
    /\ pendingCleanup # <<>>
    /\ watches' = clearWatch(watches, pendingCleanup[1])
    /\ pendingCleanup' = <<>>
    /\ UNCHANGED <<notInPart000, mounted, path, currentPosition, isTracking, error,
                   watchId, nextId, pendingSeed, captured, now>>

\* the success callback of getCurrentPosition (current-position component)
SeedFixPart000 ==
    \E f \in Fixes :
        /\ Idle
        /\ pendingSeed > 0
        /\ now < MaxEvents
        /\ now' = now + 1
        /\ pendingSeed' = pendingSeed - 1
        /\ currentPosition' =
               SetState(currentPosition, <<[lat |-> f.latitude, lng |-> f.longitude]>>)
        /\ error' = SetState(error, null)
        /\ UNCHANGED <<notInPart000, mounted, path, isTracking, watchId, watches,
                       nextId, captured, pendingCleanup>>

\* the error callback of getCurrentPosition (current-position component)
SeedErrorPart000 ==
    \E kind \in ErrorKinds :
        /\ Idle
        /\ pendingSeed > 0
        /\ now < MaxEvents
        /\ now' = now + 1
        /\ pendingSeed' = pendingSeed - 1
        /\ error' = SetState(error, <<"Error", kind>>)
        /\ isTracking' = SetState(isTracking, FALSE)
        /\ UNCHANGED <<notInPart000, mounted, path, currentPosition, watchId,
                       watches, nextId, captured, pendingCleanup>>

\* the success callback of a watch
WatchFixPart000 ==
    \E f \in Fixes, id \in watches, updaterRuns \in BOOLEAN :
        /\ Idle
        /\ now < MaxEvents
        /\ mounted => updaterRuns
        /\ now' = now + 1
        /\ IF variant = "current"
           THEN /\ updaterRuns
                /\ currentPosition' =
                       SetState(currentPosition,
                                <<[lat |-> f.latitude, lng |-> f.longitude]>>)
                /\ path' = path
           ELSE /\ LET newLocation == Location(f, now')
                       add == updaterRuns
                                /\ isSignificantMoveRounded(newLocation, LastOf(path))
                   IN  path' = IF add THEN SetState(path, Append(path, Rounded(newLocation)))
                                      ELSE path
                /\ currentPosition' = currentPosition
        /\ error' = SetState(error, null)
        /\ UNCHANGED <<notInPart000, mounted, isTracking, watchId, watches, nextId,
                       pendingSeed, captured, pendingCleanup>>

\* the error callback of a watch; in the rounding component it ends with
\* stopTracking() of the render whose startTracking made the watch
WatchErrorPart000 ==
    \E id \in watches, kind \in ErrorKinds :
        /\ Idle
        /\ now < MaxEvents
        /\ now' = now + 1
        /\ IF variant = "current"
           THEN /\ error' = SetState(error, <<"Error", kind>>)
                /\ isTracking' = SetState(isTracking, FALSE)
                /\ UNCHANGED <<watches, watchId, pendingCleanup>>
           ELSE /\ error' = SetState(error, <<"Failed to get location", kind>>)
                /\ stopTrackingRounding(captured[id])
        /\ UNCHANGED <<notInPart000, mounted, path, currentPosition, nextId,
                       pendingSeed, captured>>

\* the component is disposed: the rounding component clears the watch whose
\* id it stores, the current-position component has no cleanup
UnmountPart000 ==
    /\ Idle /\ mounted
    /\ now < MaxEvents
    /\ now' = now + 1
    /\ mounted' = FALSE
    /\ watches' = IF variant = "rounding" THEN clearWatch(watches, watchId) ELSE watches
    /\ UNCHANGED <<notInPart000, path, currentPosition, isTracking, error, watchId,
                   nextId, pendingSeed, captured, pendingCleanup>>

NextPart000 ==
    \/ startTrackingPart000
    \/ stopTrackingPart000
    \/ EffectCleanupPart000
    \/ SeedFixPart000
    \/ SeedErrorPart000
    \/ WatchFixPart000
    \/ WatchErrorPart000
    \/ UnmountPart000

SpecPart000 == InitPart000 /\ [][NextPart000]_vars

\* the stored handle names an active subscription
SubscriptionStored == watchId # null /\ watchId[1] \in watches

\* C21: after every event handler, isTracking is true if and only if a
\* subscription handle is stored and that subscription is active; a watch
\* error of the rounding component cancels the subscription, and no fix is
\* appended to the path while isTracking is false.
C21_TrackingFlagAgrees ==
    [][/\ (mounted' /\ Idle') => (isTracking' <=> SubscriptionStored')
       /\ (variant = "rounding" /\ mounted /\ WatchErrorPart000)
              => (~isTracking' /\ watches' = {})
       /\ (mounted /\ ~isTracking /\ WatchFixPart000) => path' = path]_vars

\* JSON.parse of the item throws or gives a value that is not an array
NotASequence(st) == JSONparse(GetItemOrEmpty(st)).kind # "array"

\* C22: when the 'locationPath' item the page was opened with does not parse
\* to a sequence and is still in place, no step writes the item and no save
\* succeeds (the durable log stays as it was), a fix delivered while tracking
\* still enters the in-memory path, and a reload shows what the original
\* payload gives: no fix of the session.
C22_MalformedNeverRepaired ==
    [][(variant = "background" /\ storage = storage0 /\ NotASequence(storage0)) =>
          /\ storage' = storage0
          /\ saved' = <<>>
          /\ (mounted /\ isTracking /\ SeedFix)
                 => \E f \in Fixes : path' = <<Location(f, now')>>
          /\ (mounted /\ isTracking /\ WatchFix)
                 => \E f \in Fixes :
                        path' = IF isSignificantMove(Location(f, now'), LastOf(path))
                                THEN Append(path, Location(f, now'))
                                ELSE path
          /\ Reload => path' = LoadFromStorage(storage0).path]_vars

C22_Witness ==
    /\ variant = "background"
    /\ storage0.present
    /\ NotASequence(storage0)
    /\ storage = storage0
    /\ env.quotaOk
    /\ mounted
    /\ isTracking
    /\ saveFailed
    /\ saved = <<>>
    /\ Len(path) = 2
    /\ path[1].timestamp = 2
    /\ path[2].timestamp = 3

====
